---- MODULE Spec2Model ----
(***************************************************************************)
(* Model of the audio language-compliance pipeline of src/main.py:         *)
(*   merge_contiguous_segments, detect_speech_segments and the batch loop  *)
(*   of process_and_flag_audios.                                           *)
(*                                                                         *)
(* Times are integers in milliseconds.  A confidence is an integer in      *)
(* units of 1e-5 (70000 is 0.7), so that round(confidence, 4) and the      *)
(* "{confidence:.2f}" of the flag reason are real conversions.             *)
(***************************************************************************)
EXTENDS Integers, Sequences, FiniteSets, TLC

(***************************************************************************)
(* Bounds of the model.                                                    *)
(***************************************************************************)
MaxFiles == 3
MaxChunks == 2
MaxMergeLen == 3

(***************************************************************************)
(* Program constants (defaults of process_and_flag_audios).                *)
(***************************************************************************)
DefaultThreshold == 70000
DefaultMinSegmentLen == 1000
DefaultMaxMergeGap == 1000

VARIABLES
    \* ---- process_and_flag_audios ----
    pc,                  \* position in process_and_flag_audios
    config,              \* the arguments of the call
    audio_files,         \* os.listdir result, filtered by extension (names)
    file_idx,            \* 1-based position of `filename` in audio_files
    contents,            \* what each file visited so far turned out to hold
    speech_segments,     \* result of detect_speech_segments for the file
    full_audio,          \* TRUE: decoded audio, FALSE: None
    seg_i,               \* the loop variable i (0-based)
    temp_files,          \* the i of each _temp_segment_{i}.wav written and not removed
    file_segments_info,  \* segment info of the file, kept for merging
    all_segments_data,   \* report rows
    processing_stats,    \* the statistics dictionary
    merged_segments,     \* result of merge_contiguous_segments for the file
    merge_idx,           \* loop position of the export loops (0-based)
    clips,               \* export attempts on the clip folder
    transcribed,         \* calls of whisper.transcribe: <<file, i>>
    report,              \* the Excel file: written or not, and its rows
    result,              \* the returned dictionary
    env,                 \* the input folder and the model, as the call finds them
    folder,              \* what has become of each listed audio file
    \* ---- merge_contiguous_segments called on its own ----
    mg,
    \* ---- the flagging decision on its own ----
    cl,
    \* ---- detect_speech_segments called on its own ----
    sg,
    \* ---- the processing page of src/app.py ----
    ui

orch_vars == <<pc, config, audio_files, file_idx, contents, speech_segments,
               full_audio, seg_i, temp_files, file_segments_info,
               all_segments_data, processing_stats, merged_segments,
               merge_idx, clips, transcribed, report, result, env,
               folder>>

vars == <<pc, config, audio_files, file_idx, contents, speech_segments,
          full_audio, seg_i, temp_files, file_segments_info,
          all_segments_data, processing_stats, merged_segments,
          merge_idx, clips, transcribed, report, result, mg, cl, ui, env, sg,
          folder>>

(***************************************************************************)
(* Generic helpers.                                                        *)
(***************************************************************************)
Range(s) == {s[k] : k \in 1..Len(s)}

SeqsUpTo(S, n) == UNION {[1..k -> S] : k \in 0..n}

RECURSIVE SumSeq(_)
SumSeq(s) == IF s = <<>> THEN 0 ELSE Head(s) + SumSeq(Tail(s))

(***************************************************************************)
(* round(x, 4) and "{x:.2f}": round half to even to a multiple of `unit`.  *)
(***************************************************************************)
RoundTo(x, unit) ==
    LET q == x \div unit
        r == x % unit
    IN  IF 2 * r > unit \/ (2 * r = unit /\ q % 2 = 1)
        THEN (q + 1) * unit
        ELSE q * unit

Round4(x) == RoundTo(x, 10)

Format2f(x) == RoundTo(x, 1000)

(***************************************************************************)
(* merge_contiguous_segments (src/main.py 52-107).                         *)
(* A segment info is a record with at least start_ms, end_ms, is_flagged.  *)
(* A flagged entry is the pair (i, seg) of the code, i counted from 0.     *)
(***************************************************************************)
RECURSIVE FlaggedFrom(_, _)
FlaggedFrom(segments_info, k) ==
    IF k > Len(segments_info) THEN <<>>
    ELSE (IF segments_info[k].is_flagged
          THEN <<[idx |-> k - 1, seg |-> segments_info[k]]>>
          ELSE <<>>) \o FlaggedFrom(segments_info, k + 1)

FlaggedSegments(segments_info) == FlaggedFrom(segments_info, 1)

\* list.sort(key=start_ms) is stable: an entry goes behind every entry whose
\* key is not greater.
RECURSIVE InsertByStart(_, _)
InsertByStart(sorted, x) ==
    IF sorted = <<>> THEN <<x>>
    ELSE IF x.seg.start_ms < Head(sorted).seg.start_ms
         THEN <<x>> \o sorted
         ELSE <<Head(sorted)>> \o InsertByStart(Tail(sorted), x)

RECURSIVE SortFrom(_, _, _)
SortFrom(s, k, acc) ==
    IF k > Len(s) THEN acc
    ELSE SortFrom(s, k + 1, InsertByStart(acc, s[k]))

SortByStart(s) == SortFrom(s, 1, <<>>)

\* Mutant of CloseEnough: the comparison is turned round.
CloseEnoughReversed(prev_seg, curr_seg, max_gap_ms) ==
    curr_seg.start_ms - prev_seg.end_ms >= max_gap_ms

\* Mutant of CloseEnough: a strict comparison.
CloseEnoughStrict(prev_seg, curr_seg, max_gap_ms) ==
    curr_seg.start_ms - prev_seg.end_ms < max_gap_ms

\* gap = curr_seg['start_ms'] - prev_seg['end_ms']; gap <= max_gap_ms
CloseEnough(prev_seg, curr_seg, max_gap_ms) ==
    curr_seg.start_ms - prev_seg.end_ms <= max_gap_ms

\* Mutant of GroupRange: the group loses its indices but the first.
GroupRangeFirstIndex(current_group) ==
    [start_ms |-> current_group[1].seg.start_ms,
     end_ms   |-> current_group[Len(current_group)].seg.end_ms,
     indices  |-> <<current_group[1].idx>>]

\* Mutant of GroupRange: the range ends at the latest end of its group.
GroupRangeMaxEnd(current_group) ==
    [start_ms |-> current_group[1].seg.start_ms,
     end_ms   |-> CHOOSE e \in {current_group[k].seg.end_ms :
                                   k \in 1..Len(current_group)} :
                      \A k \in 1..Len(current_group) :
                          current_group[k].seg.end_ms <= e,
     indices  |-> [k \in 1..Len(current_group) |-> current_group[k].idx]]

\* (start_ms, end_ms, indices) of a group
GroupRange(current_group) ==
    [start_ms |-> current_group[1].seg.start_ms,
     end_ms   |-> current_group[Len(current_group)].seg.end_ms,
     indices  |-> [k \in 1..Len(current_group) |-> current_group[k].idx]]

RECURSIVE MergeWalk(_, _, _, _, _)
MergeWalk(flagged_segments, i, merged, current_group, max_gap_ms) ==
    IF i > Len(flagged_segments)
    THEN \* add the last group
         IF current_group # <<>>
         THEN Append(merged, GroupRange(current_group))
         ELSE merged
    ELSE LET prev == current_group[Len(current_group)]
             curr == flagged_segments[i]
         IN  IF CloseEnough(prev.seg, curr.seg, max_gap_ms)
             THEN MergeWalk(flagged_segments, i + 1, merged,
                            Append(current_group, curr), max_gap_ms)
             ELSE MergeWalk(flagged_segments, i + 1,
                            Append(merged, GroupRange(current_group)),
                            <<curr>>, max_gap_ms)

merge_contiguous_segments(segments_info, max_gap_ms) ==
    IF segments_info = <<>> THEN <<>>
    ELSE LET flagged_segments == FlaggedSegments(segments_info)
         IN  IF flagged_segments = <<>> THEN <<>>
             ELSE LET sorted == SortByStart(flagged_segments)
                  IN  MergeWalk(sorted, 2, <<>>, <<sorted[1]>>, max_gap_ms)

(***************************************************************************)
(* The flagging decision of process_and_flag_audios (src/main.py 319-328). *)
(***************************************************************************)
NoReason == [kind |-> "", language |-> "", score |-> 0]

\* Mutant of Classify: the threshold itself is flagged (<= for <).
ClassifyInclusive(language, confidence, authorized_languages, confidence_threshold) ==
    IF language \notin authorized_languages
    THEN [is_flagged |-> TRUE,
          flag_reason |-> [kind |-> "Language mismatch",
                           language |-> language, score |-> 0]]
    ELSE IF confidence <= confidence_threshold
    THEN [is_flagged |-> TRUE,
          flag_reason |-> [kind |-> "Low confidence", language |-> "",
                           score |-> Format2f(confidence)]]
    ELSE [is_flagged |-> FALSE, flag_reason |-> NoReason]

\* Mutant of Classify: the confidence is tested before the language.
ClassifyConfidenceFirst(language, confidence, authorized_languages, confidence_threshold) ==
    IF confidence < confidence_threshold
    THEN [is_flagged |-> TRUE,
          flag_reason |-> [kind |-> "Low confidence", language |-> "",
                           score |-> Format2f(confidence)]]
    ELSE IF language \notin authorized_languages
    THEN [is_flagged |-> TRUE,
          flag_reason |-> [kind |-> "Language mismatch",
                           language |-> language, score |-> 0]]
    ELSE [is_flagged |-> FALSE, flag_reason |-> NoReason]

Classify(language, confidence, authorized_languages, confidence_threshold) ==
    IF language \notin authorized_languages
    THEN [is_flagged |-> TRUE,
          flag_reason |-> [kind |-> "Language mismatch",
                           language |-> language, score |-> 0]]
    ELSE IF confidence < confidence_threshold
    THEN [is_flagged |-> TRUE,
          flag_reason |-> [kind |-> "Low confidence", language |-> "",
                           score |-> Format2f(confidence)]]
    ELSE [is_flagged |-> FALSE, flag_reason |-> NoReason]

\* confidence = np.mean(confidences) if the result has segments, else 0.0
MeanConfidence(confidences) ==
    IF confidences = <<>> THEN 0
    ELSE SumSeq(confidences) \div Len(confidences)

(***************************************************************************)
(* Inputs of the batch: the call's arguments and what the collaborators    *)
(* (pydub, whisper) answer for a file.                                     *)
(***************************************************************************)
Languages == {"en", "hi", "fr"}

\* The clip settings of a call: no clip folder, one clip per flagged segment,
\* or merged clips with a merge gap of zero or of the default.
ClipSettings ==
    { [merge_flagged_segments |-> TRUE,  output_cropped_folder |-> FALSE,
       max_merge_gap_ms |-> DefaultMaxMergeGap],
      [merge_flagged_segments |-> FALSE, output_cropped_folder |-> TRUE,
       max_merge_gap_ms |-> DefaultMaxMergeGap],
      [merge_flagged_segments |-> TRUE,  output_cropped_folder |-> TRUE,
       max_merge_gap_ms |-> 0],
      [merge_flagged_segments |-> TRUE,  output_cropped_folder |-> TRUE,
       max_merge_gap_ms |-> DefaultMaxMergeGap] }

Configs ==
    { [confidence_threshold   |-> DefaultThreshold,
       min_segment_len        |-> DefaultMinSegmentLen,
       merge_flagged_segments |-> c.merge_flagged_segments,
       max_merge_gap_ms       |-> c.max_merge_gap_ms,
       output_cropped_folder  |-> c.output_cropped_folder,
       authorized_languages   |-> {"en", "hi"}] : c \in ClipSettings }

\* What the call finds: whether input_folder is a directory, whether
\* whisper.load_model returns, how many names of os.listdir end in an audio
\* extension and whether there are other names.  A folder with audio files
\* holds other files too; one without may be empty.  temp_named: the one
\* audio file of the folder is named _temp_segment_0.wav.
Worlds ==
    { [folder_exists |-> FALSE, model_loads |-> m, audio |-> 0,
       other |-> FALSE, temp_named |-> FALSE] : m \in BOOLEAN }
    \cup { [folder_exists |-> TRUE, model_loads |-> m, audio |-> 0,
            other |-> o, temp_named |-> FALSE] : m \in BOOLEAN, o \in BOOLEAN }
    \cup { [folder_exists |-> TRUE, model_loads |-> m, audio |-> n,
            other |-> TRUE, temp_named |-> FALSE] :
           m \in BOOLEAN, n \in 1..MaxFiles }
    \cup { [folder_exists |-> TRUE, model_loads |-> TRUE, audio |-> 1,
            other |-> TRUE, temp_named |-> TRUE] }

DefaultWorld == [folder_exists |-> TRUE, model_loads |-> TRUE, audio |-> 1,
                 other |-> TRUE, temp_named |-> FALSE]

\* What whisper does with one extract: raise, or a result dictionary; and
\* whether a statement after the flag has been counted (lines 333-357, e.g.
\* round(confidence, 4) or a MemoryError) raises.
Transcripts ==
    { [raises |-> TRUE,  late |-> FALSE, text |-> "", language |-> "",
       confidences |-> <<>>],
      [raises |-> FALSE, late |-> FALSE, text |-> "hello", language |-> "en",
       confidences |-> <<DefaultThreshold + 10000, DefaultThreshold - 10000>>],
      [raises |-> FALSE, late |-> FALSE, text |-> "hallo", language |-> "en",
       confidences |-> <<DefaultThreshold - 4>>],
      [raises |-> FALSE, late |-> FALSE, text |-> "bonjour", language |-> "fr",
       confidences |-> <<>>],
      [raises |-> FALSE, late |-> TRUE,  text |-> "salut", language |-> "fr",
       confidences |-> <<>>] }

\* What one non-silent chunk of a file is like: how long it is, whether its
\* extract can be written, and what whisper does with it.
Raising == CHOOSE t \in Transcripts : t.raises

ChunkKinds ==
    [long : {TRUE}, temp_ok : {TRUE}, tr : Transcripts]
    \cup { [long |-> TRUE,  temp_ok |-> FALSE, tr |-> Raising],
           [long |-> FALSE, temp_ok |-> TRUE,  tr |-> Raising] }

\* A long chunk is exactly min_segment_len long (the boundary of the filter),
\* a short one half of it; the audio starts with half a chunk of silence and
\* consecutive chunks are half a chunk apart.
LongChunk == DefaultMinSegmentLen
ShortChunk == DefaultMinSegmentLen \div 2
ChunkStride == LongChunk + ShortChunk

\* The k-th chunk detect_nonsilent reports (k from 1), of the given kind.
Chunk(k, kind) ==
    [start_ms |-> ShortChunk + (k - 1) * ChunkStride,
     end_ms   |-> ShortChunk + (k - 1) * ChunkStride
                  + (IF kind.long THEN LongChunk ELSE ShortChunk),
     temp_ok  |-> kind.temp_ok,
     tr       |-> kind.tr]

\* A chunk that is extracted and transcribed without a flag.
PlainChunk ==
    CHOOSE kind \in ChunkKinds :
        /\ kind.long /\ kind.temp_ok /\ ~kind.tr.raises /\ ~kind.tr.late
        /\ kind.tr.language = "en" /\ Len(kind.tr.confidences) = 2

\* A file: whether AudioSegment.from_file decodes it, and the chunks its
\* audio holds (at most `room` of them).  Nobody sees the chunks of a file
\* that does not decode: such a file holds none, or plain ones.
FileContents(room) ==
    { [decodes |-> TRUE,
       nonsilent |-> [k \in 1..Len(kinds) |-> Chunk(k, kinds[k])]] :
        kinds \in SeqsUpTo(ChunkKinds, room) }
    \cup { [decodes |-> FALSE,
            nonsilent |-> [k \in 1..Len(kinds) |-> Chunk(k, kinds[k])]] :
           kinds \in SeqsUpTo({PlainChunk}, room) }

\* The chunks of the files visited so far.
ChunksSeen == SumSeq([k \in 1..Len(contents) |-> Len(contents[k].nonsilent)])

(***************************************************************************)
(* detect_speech_segments (src/main.py 109-142): returns the pair          *)
(* (filtered_segments, audio), or ([], None) on any exception.             *)
(***************************************************************************)
\* Mutant of KeepSegment: a chunk of exactly min_segment_len is dropped.
KeepSegmentStrict(chunk, min_segment_len) ==
    (chunk.end_ms - chunk.start_ms) > min_segment_len

KeepSegment(chunk, min_segment_len) ==
    (chunk.end_ms - chunk.start_ms) >= min_segment_len

RECURSIVE FilterSegments(_, _)
FilterSegments(speech, min_segment_len) ==
    IF speech = <<>> THEN <<>>
    ELSE (IF KeepSegment(Head(speech), min_segment_len)
          THEN <<Head(speech)>> ELSE <<>>)
         \o FilterSegments(Tail(speech), min_segment_len)

\* Mutant of detect_speech_segments: a failed decode is not noticed.
detect_speech_segments_blind(content, min_segment_len) ==
    [segments |-> FilterSegments(content.nonsilent, min_segment_len),
     audio    |-> TRUE]

detect_speech_segments(content, min_segment_len) ==
    IF content.decodes
    THEN [segments |-> FilterSegments(content.nonsilent, min_segment_len),
          audio    |-> TRUE]
    ELSE [segments |-> <<>>, audio |-> FALSE]

(***************************************************************************)
(* Report rows.  Seconds are milliseconds / 1000.0, kept as the whole      *)
(* seconds and the thousandths.                                            *)
(***************************************************************************)
Seconds(ms) == [s |-> ms \div 1000, frac |-> ms % 1000]

NoSpeechRow(filename) ==
    [file |-> filename, start |-> Seconds(0), end |-> Seconds(0),
     text |-> "NO SPEECH DETECTED", language |-> "N/A", confidence |-> 0,
     is_flagged |-> TRUE,
     reason |-> [kind |-> "No speech segments detected",
                 language |-> "", score |-> 0]]

ProcessingErrorRow(filename) ==
    [file |-> filename, start |-> Seconds(0), end |-> Seconds(0),
     text |-> "ERROR DURING PROCESSING", language |-> "N/A", confidence |-> 0,
     is_flagged |-> TRUE,
     reason |-> [kind |-> "Processing Error", language |-> "", score |-> 0]]

TranscriptionErrorRow(filename, seg) ==
    [file |-> filename, start |-> Seconds(seg.start_ms),
     end |-> Seconds(seg.end_ms),
     text |-> "ERROR DURING TRANSCRIPTION", language |-> "N/A",
     confidence |-> 0, is_flagged |-> TRUE,
     reason |-> [kind |-> "Transcription Error", language |-> "", score |-> 0]]

NotApplicable == [kind |-> "N/A", language |-> "", score |-> 0]

\* Mutant of SegmentRow: the reason is written as the decision left it.
SegmentRowRawReason(filename, seg, confidence, verdict) ==
    [file |-> filename, start |-> Seconds(seg.start_ms),
     end |-> Seconds(seg.end_ms),
     text |-> seg.tr.text, language |-> seg.tr.language,
     confidence |-> Round4(confidence),
     is_flagged |-> verdict.is_flagged,
     reason |-> verdict.flag_reason]

SegmentRow(filename, seg, confidence, verdict) ==
    [file |-> filename, start |-> Seconds(seg.start_ms),
     end |-> Seconds(seg.end_ms),
     text |-> seg.tr.text, language |-> seg.tr.language,
     confidence |-> Round4(confidence),
     is_flagged |-> verdict.is_flagged,
     reason |-> IF verdict.is_flagged THEN verdict.flag_reason
                ELSE NotApplicable]

SegmentInfo(seg, confidence, verdict) ==
    [start_ms |-> seg.start_ms, end_ms |-> seg.end_ms,
     text |-> seg.tr.text, language |-> seg.tr.language,
     confidence |-> Round4(confidence),
     is_flagged |-> verdict.is_flagged,
     flag_reason |-> verdict.flag_reason]

ZeroStats ==
    [total_files |-> 0, successful_files |-> 0, failed_files |-> 0,
     total_segments |-> 0, flagged_segments |-> 0, merged_clips |-> 0]

NoResult == [returned |-> FALSE, success |-> FALSE, error |-> "",
             output_excel_path |-> FALSE]

Failure(message) == [returned |-> TRUE, success |-> FALSE, error |-> message,
                     output_excel_path |-> FALSE]

(***************************************************************************)
(* process_and_flag_audios (src/main.py 144-476).                          *)
(***************************************************************************)
filename == audio_files[file_idx]

Bump(stats, key) == [stats EXCEPT ![key] = @ + 1]

\* temp_segment_path (297-301) is the path of a listed audio file.
Clashes(i) == env.temp_named /\ i = 0

\* segment_audio.export(temp_segment_path) (302) writes over what is there.
WriteExtract ==
    folder' = IF Clashes(seg_i) THEN [folder EXCEPT ![1] = "overwritten"]
              ELSE folder

\* os.remove(temp_segment_path) (377-378) removes what is there.
RemoveExtract ==
    folder' = IF Clashes(seg_i) THEN [folder EXCEPT ![1] = "deleted"]
              ELSE folder

\* The initial state: the call has been made, nothing has run.
OrchIdle ==
    /\ folder = [k \in 1..env.audio |-> "intact"]
    /\ audio_files = <<>>
    /\ file_idx = 1
    /\ contents = <<>>
    /\ speech_segments = <<>>
    /\ full_audio = FALSE
    /\ seg_i = 0
    /\ temp_files = {}
    /\ file_segments_info = <<>>
    /\ all_segments_data = <<>>
    /\ processing_stats = ZeroStats
    /\ merged_segments = <<>>
    /\ merge_idx = 0
    /\ clips = <<>>
    /\ transcribed = <<>>
    /\ report = [written |-> FALSE, rows |-> <<>>]
    /\ result = NoResult

PureIdle ==
    /\ ui = [pc |-> "off"]
    /\ mg = [pc |-> "off"]
    /\ cl = [pc |-> "off"]
    /\ sg = [pc |-> "off"]

Init ==
    /\ pc = "setup"
    /\ config \in Configs
    /\ env \in Worlds
    /\ OrchIdle
    /\ PureIdle

file_vars == <<speech_segments, full_audio, seg_i, file_segments_info,
               merged_segments, merge_idx>>

\* --- 1. Setup (185-228): the three early returns ---
SetupFails ==
    /\ pc = "setup"
    /\ ~env.folder_exists \/ ~env.model_loads \/ env.audio = 0
    /\ result' = Failure(IF ~env.folder_exists
                         THEN "The folder does not exist"
                         ELSE IF ~env.model_loads THEN "Error loading model"
                         ELSE "No audio files found")
    /\ pc' = "returned"
    /\ UNCHANGED <<config, audio_files, file_idx, contents, file_vars,
                   temp_files, all_segments_data, processing_stats, clips,
                   transcribed, report, mg, cl, ui, env, sg, folder>>

\* Mutant of SetupOk: a model that failed to load does not stop the batch.
SetupOkUnchecked ==
    /\ pc = "setup"
    /\ env.folder_exists /\ env.audio > 0
    /\ audio_files' = [k \in 1..env.audio |-> k]
    /\ processing_stats' = [ZeroStats EXCEPT !.total_files = env.audio]
    /\ all_segments_data' = <<>>
    /\ file_idx' = 1
    /\ pc' = "file_loop"
    /\ UNCHANGED <<config, contents, file_vars, temp_files, clips,
                   transcribed, report, result, mg, cl, ui, env, sg, folder>>

\* --- Setup succeeds; statistics are initialised (230-246) ---
SetupOk ==
    /\ pc = "setup"
    /\ env.folder_exists /\ env.model_loads /\ env.audio > 0
    /\ audio_files' = [k \in 1..env.audio |-> k]
    /\ processing_stats' = [ZeroStats EXCEPT !.total_files = env.audio]
    /\ all_segments_data' = <<>>
    /\ file_idx' = 1
    /\ pc' = "file_loop"
    /\ UNCHANGED <<config, contents, file_vars, temp_files, clips,
                   transcribed, report, result, mg, cl, ui, env, sg, folder>>

\* The file is over: the for loop takes the next file name.
NextFile ==
    /\ file_idx' = file_idx + 1
    /\ pc' = "file_loop"

\* Mutant of FileError: the aborted file is counted but gets no row.
FileErrorRowless ==
    /\ all_segments_data' = all_segments_data
    /\ processing_stats' = Bump(processing_stats, "failed_files")
    /\ NextFile

\* Mutant of FileError: the aborted file is not counted.
FileErrorUncounted ==
    /\ all_segments_data' = Append(all_segments_data, ProcessingErrorRow(filename))
    /\ processing_stats' = processing_stats
    /\ NextFile

\* --- the except clause of the file (420-428) ---
FileError ==
    /\ all_segments_data' = Append(all_segments_data, ProcessingErrorRow(filename))
    /\ processing_stats' = Bump(processing_stats, "failed_files")
    /\ NextFile

\* Mutant of FileNoSpeech: the file is not counted as failed.
FileNoSpeechUncounted ==
    /\ pc = "file_loop"
    /\ file_idx <= Len(audio_files)
    /\ \E content \in FileContents(MaxChunks - ChunksSeen) :
           LET detected == detect_speech_segments(content, config.min_segment_len)
           IN  /\ detected.segments = <<>>
               /\ contents' = Append(contents, content)
               /\ speech_segments' = detected.segments
               /\ full_audio' = detected.audio
    /\ all_segments_data' = Append(all_segments_data, NoSpeechRow(filename))
    /\ NextFile
    /\ UNCHANGED <<config, audio_files, seg_i, temp_files,
                   file_segments_info, merged_segments, merge_idx, clips,
                   transcribed, report, result, mg, cl, ui, env, sg, folder, processing_stats>>

\* Mutant of FileNoSpeech: the file is counted as a segment as well.
FileNoSpeechCounted ==
    /\ pc = "file_loop"
    /\ file_idx <= Len(audio_files)
    /\ \E content \in FileContents(MaxChunks - ChunksSeen) :
           LET detected == detect_speech_segments(content, config.min_segment_len)
           IN  /\ detected.segments = <<>>
               /\ contents' = Append(contents, content)
               /\ speech_segments' = detected.segments
               /\ full_audio' = detected.audio
    /\ all_segments_data' = Append(all_segments_data, NoSpeechRow(filename))
    /\ processing_stats' =
           Bump(Bump(processing_stats, "failed_files"), "total_segments")
    /\ NextFile
    /\ UNCHANGED <<config, audio_files, seg_i, temp_files,
                   file_segments_info, merged_segments, merge_idx, clips,
                   transcribed, report, result, mg, cl, ui, env, sg, folder>>

\* --- Step 1 (253-272): no speech segment, or no audio at all ---
FileNoSpeech ==
    /\ pc = "file_loop"
    /\ file_idx <= Len(audio_files)
    /\ \E content \in FileContents(MaxChunks - ChunksSeen) :
           LET detected == detect_speech_segments(content, config.min_segment_len)
           IN  /\ detected.segments = <<>>
               /\ contents' = Append(contents, content)
               /\ speech_segments' = detected.segments
               /\ full_audio' = detected.audio
    /\ all_segments_data' = Append(all_segments_data, NoSpeechRow(filename))
    /\ processing_stats' = Bump(processing_stats, "failed_files")
    /\ NextFile
    /\ UNCHANGED <<config, audio_files, seg_i, temp_files,
                   file_segments_info, merged_segments, merge_idx, clips,
                   transcribed, report, result, mg, cl, ui, env, sg, folder>>

\* --- Step 1 (253-277): speech segments were detected ---
FileDetected ==
    /\ pc = "file_loop"
    /\ file_idx <= Len(audio_files)
    /\ \E content \in FileContents(MaxChunks - ChunksSeen) :
           LET detected == detect_speech_segments(content, config.min_segment_len)
           IN  /\ detected.segments # <<>>
               /\ contents' = Append(contents, content)
               /\ speech_segments' = detected.segments
               /\ full_audio' = detected.audio
    /\ file_segments_info' = <<>>
    /\ seg_i' = 0
    /\ pc' = "segment_loop"
    /\ UNCHANGED <<config, audio_files, file_idx, temp_files,
                   all_segments_data, processing_stats, merged_segments,
                   merge_idx, clips, transcribed, report, result, mg, cl, ui, env, sg,
          folder>>

segment == speech_segments[seg_i + 1]

\* --- Step 2 (288-302): the extract of segment i is written ---
ExportTemp ==
    /\ pc = "segment_loop"
    /\ seg_i < Len(speech_segments)
    /\ segment.temp_ok
    /\ temp_files' = temp_files \cup {seg_i}
    /\ WriteExtract
    /\ pc' = "transcribe"
    /\ UNCHANGED <<config, audio_files, file_idx, contents, file_vars,
                   all_segments_data, processing_stats, clips, transcribed,
                   report, result, mg, cl, ui, env, sg>>

\* --- Step 2 (288-302): writing the extract raises, outside the inner try;
\*     the file's except clause runs.  The extract may have been created. ---
ExportTempFails ==
    /\ pc = "segment_loop"
    /\ seg_i < Len(speech_segments)
    /\ ~segment.temp_ok
    /\ \E left \in BOOLEAN :
           IF left THEN temp_files' = temp_files \cup {seg_i} /\ WriteExtract
           ELSE temp_files' = temp_files /\ folder' = folder
    /\ FileError
    /\ UNCHANGED <<config, audio_files, contents, file_vars, clips,
                   transcribed, report, result, mg, cl, ui, env, sg>>

\* --- Steps 2-3 (304-359, 375-378): transcription returns ---
TranscribeOk ==
    /\ pc = "transcribe"
    /\ ~segment.tr.raises /\ ~segment.tr.late
    /\ LET confidence == MeanConfidence(segment.tr.confidences)
           verdict == Classify(segment.tr.language, confidence,
                               config.authorized_languages,
                               config.confidence_threshold)
           flagged == IF verdict.is_flagged
                      THEN Bump(processing_stats, "flagged_segments")
                      ELSE processing_stats
       IN  /\ file_segments_info' =
                  Append(file_segments_info,
                         SegmentInfo(segment, confidence, verdict))
           /\ all_segments_data' =
                  Append(all_segments_data,
                         SegmentRow(filename, segment, confidence, verdict))
           /\ processing_stats' = Bump(flagged, "total_segments")
    /\ transcribed' = Append(transcribed, <<filename, seg_i>>)
    /\ temp_files' = temp_files \ {seg_i}
    /\ RemoveExtract
    /\ seg_i' = seg_i + 1
    /\ pc' = "segment_loop"
    /\ UNCHANGED <<config, audio_files, file_idx, contents, speech_segments,
                   full_audio, merged_segments, merge_idx, clips, report,
                   result, mg, cl, ui, env, sg>>

\* Mutant of TranscribeError: the error row is written and the segment loop
\* is left.
TranscribeErrorBreaks ==
    /\ pc = "transcribe"
    /\ segment.tr.raises
    /\ all_segments_data' =
           Append(all_segments_data, TranscriptionErrorRow(filename, segment))
    /\ processing_stats' =
           Bump(Bump(processing_stats, "total_segments"), "flagged_segments")
    /\ transcribed' = Append(transcribed, <<filename, seg_i>>)
    /\ temp_files' = temp_files \ {seg_i}
    /\ RemoveExtract
    /\ seg_i' = Len(speech_segments)
    /\ pc' = "segment_loop"
    /\ UNCHANGED <<config, audio_files, file_idx, contents, speech_segments,
                   full_audio, file_segments_info, merged_segments, merge_idx,
                   clips, report, result, mg, cl, ui, env, sg>>

\* Mutant of TranscribeError: the segment is counted but no row is written.
TranscribeErrorSilent ==
    /\ pc = "transcribe"
    /\ segment.tr.raises
    /\ processing_stats' =
           Bump(Bump(processing_stats, "total_segments"), "flagged_segments")
    /\ transcribed' = Append(transcribed, <<filename, seg_i>>)
    /\ temp_files' = temp_files \ {seg_i}
    /\ RemoveExtract
    /\ seg_i' = seg_i + 1
    /\ pc' = "segment_loop"
    /\ UNCHANGED <<config, audio_files, file_idx, contents, speech_segments,
                   full_audio, file_segments_info, merged_segments, merge_idx,
                   clips, report, result, mg, cl, ui, env, sg,
                   all_segments_data>>

\* --- Steps 2-3 (304-307, 361-378): transcription raises ---
TranscribeError ==
    /\ pc = "transcribe"
    /\ segment.tr.raises
    /\ all_segments_data' =
           Append(all_segments_data, TranscriptionErrorRow(filename, segment))
    /\ processing_stats' =
           Bump(Bump(processing_stats, "total_segments"), "flagged_segments")
    /\ transcribed' = Append(transcribed, <<filename, seg_i>>)
    /\ temp_files' = temp_files \ {seg_i}
    /\ RemoveExtract
    /\ seg_i' = seg_i + 1
    /\ pc' = "segment_loop"
    /\ UNCHANGED <<config, audio_files, file_idx, contents, speech_segments,
                   full_audio, file_segments_info, merged_segments, merge_idx,
                   clips, report, result, mg, cl, ui, env, sg>>

\* --- Steps 2-3 (304-346, 361-378): transcription returns and the flag is
\*     counted (330-331), then a statement before the appends raises: the
\*     except clause writes the error row and counts the segment ---
TranscribeErrorLate ==
    /\ pc = "transcribe"
    /\ ~segment.tr.raises /\ segment.tr.late
    /\ LET confidence == MeanConfidence(segment.tr.confidences)
           verdict == Classify(segment.tr.language, confidence,
                               config.authorized_languages,
                               config.confidence_threshold)
           flagged == IF verdict.is_flagged
                      THEN Bump(processing_stats, "flagged_segments")
                      ELSE processing_stats
       IN  processing_stats' =
               Bump(Bump(flagged, "total_segments"), "flagged_segments")
    /\ all_segments_data' =
           Append(all_segments_data, TranscriptionErrorRow(filename, segment))
    /\ transcribed' = Append(transcribed, <<filename, seg_i>>)
    /\ temp_files' = temp_files \ {seg_i}
    /\ RemoveExtract
    /\ seg_i' = seg_i + 1
    /\ pc' = "segment_loop"
    /\ UNCHANGED <<config, audio_files, file_idx, contents, speech_segments,
                   full_audio, file_segments_info, merged_segments, merge_idx,
                   clips, report, result, mg, cl, ui, env, sg>>

\* --- 417-418: the file is finished ---
FileSucceeds ==
    /\ processing_stats' = Bump(processing_stats, "successful_files")
    /\ NextFile

\* Mutant of MergeSegments: the ranges are computed as soon as one segment of
\* the file has been through the loop.
MergeSegmentsEarly ==
    /\ pc = "segment_loop"
    /\ seg_i >= 1
    /\ config.merge_flagged_segments /\ config.output_cropped_folder
    /\ merged_segments' =
           merge_contiguous_segments(file_segments_info, config.max_merge_gap_ms)
    /\ merge_idx' = 0
    /\ pc' = "export_merged"
    /\ UNCHANGED <<config, audio_files, file_idx, contents, speech_segments,
                   full_audio, seg_i, temp_files, file_segments_info,
                   all_segments_data, processing_stats, clips, transcribed,
                   report, result, mg, cl, ui, env, sg, folder>>

\* --- Step 4 (380-385): merging is enabled: the ranges are computed ---
MergeSegments ==
    /\ pc = "segment_loop"
    /\ seg_i = Len(speech_segments)
    /\ config.merge_flagged_segments /\ config.output_cropped_folder
    /\ merged_segments' =
           merge_contiguous_segments(file_segments_info, config.max_merge_gap_ms)
    /\ merge_idx' = 0
    /\ pc' = "export_merged"
    /\ UNCHANGED <<config, audio_files, file_idx, contents, speech_segments,
                   full_audio, seg_i, temp_files, file_segments_info,
                   all_segments_data, processing_stats, clips, transcribed,
                   report, result, mg, cl, ui, env, sg, folder>>

\* Mutant of ExportMerged: a failed export ends the export loop of the file.
ExportMergedStops ==
    /\ pc = "export_merged"
    /\ merge_idx < Len(merged_segments)
    /\ \E ok \in BOOLEAN :
           /\ clips' = Append(clips,
                  [file |-> filename, kind |-> "merged",
                   ordinal |-> merge_idx + 1,
                   start_ms |-> merged_segments[merge_idx + 1].start_ms,
                   end_ms |-> merged_segments[merge_idx + 1].end_ms,
                   ok |-> ok])
           /\ processing_stats' =
                  IF ok THEN Bump(processing_stats, "merged_clips")
                  ELSE processing_stats
           /\ merge_idx' = IF ok THEN merge_idx + 1 ELSE Len(merged_segments)
    /\ UNCHANGED <<pc, config, audio_files, file_idx, contents,
                   speech_segments, full_audio, seg_i, temp_files,
                   file_segments_info, all_segments_data, merged_segments,
                   transcribed, report, result, mg, cl, ui, env, sg, folder>>

\* --- Step 4 (387-402): one merged range is exported, or fails to be ---
ExportMerged ==
    /\ pc = "export_merged"
    /\ merge_idx < Len(merged_segments)
    /\ \E ok \in BOOLEAN :
           /\ clips' = Append(clips,
                  [file |-> filename, kind |-> "merged",
                   ordinal |-> merge_idx + 1,
                   start_ms |-> merged_segments[merge_idx + 1].start_ms,
                   end_ms |-> merged_segments[merge_idx + 1].end_ms,
                   ok |-> ok])
           /\ processing_stats' =
                  IF ok THEN Bump(processing_stats, "merged_clips")
                  ELSE processing_stats
    /\ merge_idx' = merge_idx + 1
    /\ UNCHANGED <<pc, config, audio_files, file_idx, contents,
                   speech_segments, full_audio, seg_i, temp_files,
                   file_segments_info, all_segments_data, merged_segments,
                   transcribed, report, result, mg, cl, ui, env, sg, folder>>

\* --- 387, 417-418: the merged ranges are exhausted ---
ExportMergedDone ==
    /\ pc = "export_merged"
    /\ merge_idx = Len(merged_segments)
    /\ FileSucceeds
    /\ UNCHANGED <<config, audio_files, contents, file_vars, temp_files,
                   all_segments_data, clips, transcribed, report, result,
                   mg, cl, ui, env, sg, folder>>

\* --- Step 4 (404-406): merging is disabled ---
ExportSegments ==
    /\ pc = "segment_loop"
    /\ seg_i = Len(speech_segments)
    /\ ~config.merge_flagged_segments /\ config.output_cropped_folder
    /\ merge_idx' = 0
    /\ pc' = "export_individual"
    /\ UNCHANGED <<config, audio_files, file_idx, contents, speech_segments,
                   full_audio, seg_i, temp_files, file_segments_info,
                   all_segments_data, processing_stats, merged_segments,
                   clips, transcribed, report, result, mg, cl, ui, env, sg, folder>>

\* file_segments_info.index(seg_info): the first equal entry, from 0
IndexOf(seq, x) == (CHOOSE k \in 1..Len(seq) :
                        seq[k] = x /\ \A j \in 1..(k - 1) : seq[j] # x) - 1

\* --- Step 4 (406-415): one entry of file_segments_info is visited ---
ExportIndividual ==
    /\ pc = "export_individual"
    /\ merge_idx < Len(file_segments_info)
    /\ LET seg_info == file_segments_info[merge_idx + 1]
       IN  IF seg_info.is_flagged
           THEN \E ok \in BOOLEAN :
                    clips' = Append(clips,
                        [file |-> filename, kind |-> "segment",
                         ordinal |-> IndexOf(file_segments_info, seg_info) + 1,
                         start_ms |-> seg_info.start_ms,
                         end_ms |-> seg_info.end_ms,
                         ok |-> ok])
           ELSE clips' = clips
    /\ merge_idx' = merge_idx + 1
    /\ UNCHANGED <<pc, config, audio_files, file_idx, contents,
                   speech_segments, full_audio, seg_i, temp_files,
                   file_segments_info, all_segments_data, processing_stats,
                   merged_segments, transcribed, report, result, mg, cl, ui, env, sg, folder>>

\* --- 406, 417-418: the entries are exhausted ---
ExportIndividualDone ==
    /\ pc = "export_individual"
    /\ merge_idx = Len(file_segments_info)
    /\ FileSucceeds
    /\ UNCHANGED <<config, audio_files, contents, file_vars, temp_files,
                   all_segments_data, clips, transcribed, report, result,
                   mg, cl, ui, env, sg, folder>>

\* --- 383, 404, 417-418: no clip folder: nothing is exported ---
NoExport ==
    /\ pc = "segment_loop"
    /\ seg_i = Len(speech_segments)
    /\ ~config.output_cropped_folder
    /\ FileSucceeds
    /\ UNCHANGED <<config, audio_files, contents, file_vars, temp_files,
                   all_segments_data, clips, transcribed, report, result,
                   mg, cl, ui, env, sg, folder>>

\* --- 5. (430-476): the report is saved and the result returned ---
SaveReport ==
    /\ pc = "file_loop"
    /\ file_idx > Len(audio_files)
    /\ IF all_segments_data = <<>>
       THEN /\ result' = Failure("No segments were processed")
            /\ report' = report
       ELSE /\ \E ok \in BOOLEAN :
                   report' = IF ok
                             THEN [written |-> TRUE, rows |-> all_segments_data]
                             ELSE report
            /\ result' = [returned |-> TRUE, success |-> TRUE, error |-> "",
                          output_excel_path |-> TRUE]
    /\ pc' = "returned"
    /\ UNCHANGED <<config, audio_files, file_idx, contents, file_vars,
                   temp_files, all_segments_data, processing_stats, clips,
                   transcribed, mg, cl, ui, env, sg, folder>>

Next ==
    \/ SetupFails
    \/ SetupOk
    \/ FileNoSpeech
    \/ FileDetected
    \/ ExportTemp
    \/ ExportTempFails
    \/ TranscribeOk
    \/ TranscribeError
    \/ TranscribeErrorLate
    \/ MergeSegments
    \/ ExportMerged
    \/ ExportMergedDone
    \/ ExportSegments
    \/ ExportIndividual
    \/ ExportIndividualDone
    \/ NoExport
    \/ SaveReport

Spec == Init /\ [][Next]_vars

\* The call runs on its own: whenever a step of it is possible, one is taken
\* (no statement of the loops blocks).
SpecFair == Init /\ [][Next]_vars /\ WF_vars(Next)

(***************************************************************************)
(* merge_contiguous_segments on its own: the segment list and the gap are  *)
(* drawn from small sets, the function is applied, and then applied again  *)
(* to its own ranges.                                                      *)
(***************************************************************************)
MergeIntervals ==
    { <<0, 1000>>, <<1200, 1800>>, <<5000, 5500>>,   \* the example of the spec
      <<1000, 1200>>,                                \* abuts its neighbours
      <<500, 1500>>,                                 \* overlaps
      <<0, 5500>> }                                  \* contains the others

MergeSegs ==
    { [start_ms |-> iv[1], end_ms |-> iv[2], is_flagged |-> f] :
        iv \in MergeIntervals, f \in BOOLEAN }

MergeGaps == {0, 200, 500}

\* A returned range, taken as a flagged segment.
AsSegments(ranges) ==
    [k \in 1..Len(ranges) |->
        [start_ms |-> ranges[k].start_ms, end_ms |-> ranges[k].end_ms,
         is_flagged |-> TRUE]]

DefaultConfig == CHOOSE c \in Configs :
    /\ c.merge_flagged_segments /\ c.output_cropped_folder
    /\ c.max_merge_gap_ms = DefaultMaxMergeGap

InitMerge ==
    /\ pc = "off"
    /\ config = DefaultConfig
    /\ env = DefaultWorld
    /\ OrchIdle
    /\ ui = [pc |-> "off"]
    /\ cl = [pc |-> "off"]
    /\ sg = [pc |-> "off"]
    /\ mg \in [pc : {"call"},
               segments_info : SeqsUpTo(MergeSegs, MaxMergeLen),
               max_gap_ms : MergeGaps,
               merged : {<<>>},
               again : {<<>>},
               wider_gap : {0},
               wider : {<<>>}]

MergeCall ==
    /\ mg.pc = "call"
    /\ mg' = [mg EXCEPT
                !.merged = merge_contiguous_segments(mg.segments_info,
                                                     mg.max_gap_ms),
                !.pc = "merged"]
    /\ UNCHANGED <<orch_vars, cl, sg, ui>>

MergeAgain ==
    /\ mg.pc = "merged"
    /\ mg' = [mg EXCEPT
                !.again = merge_contiguous_segments(AsSegments(mg.merged),
                                                    mg.max_gap_ms),
                !.pc = "remerged"]
    /\ UNCHANGED <<orch_vars, cl, sg, ui>>

\* The same list is merged with a gap at least as large.
MergeWider ==
    /\ mg.pc = "merged"
    /\ \E g \in MergeGaps :
           /\ g >= mg.max_gap_ms
           /\ mg' = [mg EXCEPT
                       !.wider_gap = g,
                       !.wider = merge_contiguous_segments(mg.segments_info, g),
                       !.pc = "widened"]
    /\ UNCHANGED <<orch_vars, cl, sg, ui>>

NextMerge ==
    \/ MergeCall
    \/ MergeAgain
    \/ MergeWider

SpecMerge == InitMerge /\ [][NextMerge]_vars

(***************************************************************************)
(* The flagging decision on its own.                                       *)
(***************************************************************************)
ClassifyLanguages == Languages \cup {"unknown"}

ClassifyConfidences == {0, DefaultThreshold - 4, DefaultThreshold,
                        DefaultThreshold + 4, 100000}

ClassifyThresholds == {0, DefaultThreshold, 100000}

InitClassify ==
    /\ pc = "off"
    /\ config = DefaultConfig
    /\ env = DefaultWorld
    /\ OrchIdle
    /\ ui = [pc |-> "off"]
    /\ mg = [pc |-> "off"]
    /\ sg = [pc |-> "off"]
    /\ cl \in [pc : {"call"},
               language : ClassifyLanguages,
               confidence : ClassifyConfidences,
               authorized_languages : (SUBSET Languages) \ {{}},
               confidence_threshold : ClassifyThresholds,
               verdict : {[is_flagged |-> FALSE, flag_reason |-> NoReason]}]

ClassifyCall ==
    /\ cl.pc = "call"
    /\ cl' = [cl EXCEPT
                !.verdict = Classify(cl.language, cl.confidence,
                                     cl.authorized_languages,
                                     cl.confidence_threshold),
                !.pc = "done"]
    /\ UNCHANGED <<orch_vars, mg, sg, ui>>

NextClassify == ClassifyCall

SpecClassify == InitClassify /\ [][NextClassify]_vars

(***************************************************************************)
(* detect_speech_segments on its own: the file and min_segment_len are     *)
(* drawn from small sets and the function is applied.                      *)
(***************************************************************************)
\* Lengths of the chunks detect_nonsilent reports: around the default
\* minimum and around half of it.
SegLengths == {ShortChunk, DefaultMinSegmentLen - 1, DefaultMinSegmentLen,
               DefaultMinSegmentLen + 1}

SegMinLens == {ShortChunk, DefaultMinSegmentLen}

\* The chunks of a file, given their lengths: the k-th starts two default
\* minimum lengths after the k-1st.
ChunksOfLengths(lengths) ==
    [k \in 1..Len(lengths) |->
        [start_ms |-> (k - 1) * 2 * DefaultMinSegmentLen,
         end_ms   |-> (k - 1) * 2 * DefaultMinSegmentLen + lengths[k]]]

SegContents ==
    { [decodes |-> d, nonsilent |-> ChunksOfLengths(lengths)] :
        d \in BOOLEAN, lengths \in SeqsUpTo(SegLengths, MaxMergeLen) }

InitSegmenter ==
    /\ pc = "off"
    /\ config = DefaultConfig
    /\ env = DefaultWorld
    /\ OrchIdle
    /\ ui = [pc |-> "off"]
    /\ mg = [pc |-> "off"]
    /\ cl = [pc |-> "off"]
    /\ sg \in [pc : {"call"},
               content : SegContents,
               min_segment_len : SegMinLens,
               returned : {[segments |-> <<>>, audio |-> FALSE]}]

SegmenterCall ==
    /\ sg.pc = "call"
    /\ sg' = [sg EXCEPT
                !.returned = detect_speech_segments(sg.content,
                                                    sg.min_segment_len),
                !.pc = "done"]
    /\ UNCHANGED <<orch_vars, mg, cl, ui>>

NextSegmenter == SegmenterCall

SpecSegmenter == InitSegmenter /\ [][NextSegmenter]_vars

(***************************************************************************)
(* The processing page (src/app.py, page_processing 323-767).  Streamlit   *)
(* runs the whole script again on every event of the user; an action below *)
(* is one event followed by the run of the script.                         *)
(***************************************************************************)
\* The names in the input folder, and each name's ending in lower case
\* (file.lower().endswith(...)).
UiFolder == {"a.wav", "b.MP3", "c.aac", "notes.txt"}

LowerEnding(name) ==
    CASE name = "a.wav" -> ".wav"
      [] name = "b.MP3" -> ".mp3"
      [] name = "c.aac" -> ".aac"
      [] OTHER -> ".txt"

\* list_audio_files (src/app.py 182-203): the names the page lists
UiExtensions == {".mp3", ".wav", ".m4a", ".flac", ".ogg", ".aac", ".wma"}

list_audio_files == {f \in UiFolder : LowerEnding(f) \in UiExtensions}

\* src/main.py 219-220: the names process_and_flag_audios works on, given
\* the folder only
BackendExtensions == {".mp3", ".wav", ".m4a", ".flac", ".ogg"}

BackendFiles == {f \in UiFolder : LowerEnding(f) \in BackendExtensions}

\* Values of the FFmpeg text field; which of them validate_ffmpeg_path
\* accepts is drawn in the initial state.
FfmpegPaths == {"", "C:/ffmpeg", "C:/tools"}

Unset == "<unset>"

InitUI ==
    /\ pc = "off"
    /\ config = DefaultConfig
    /\ env = DefaultWorld
    /\ OrchIdle
    /\ mg = [pc |-> "off"]
    /\ cl = [pc |-> "off"]
    /\ sg = [pc |-> "off"]
    /\ ui \in [pc : {"load"},
               working : SUBSET FfmpegPaths,       \* paths with a working ffmpeg
               ffmpeg_path : FfmpegPaths,          \* config.get('ffmpeg_path')
               ffmpeg_validated : {FALSE},
               ffmpeg_valid : {FALSE},
               accepted : {Unset},                 \* last path validation accepted
               converter : {Unset},                \* AudioSegment.converter
               process_all : {TRUE},
               multiselect : {list_audio_files},
               selected_files : {{}},
               started : {FALSE},
               run_selected : {{}},                \* selected_files at the start
               processed : {{}}]                   \* files the backend worked on

\* validate_ffmpeg_path (25-96) run when Validate was pressed or nothing has
\* been validated in this session (373-378)
Validated(u, validate_ffmpeg) ==
    IF validate_ffmpeg \/ ~u.ffmpeg_validated
    THEN [u EXCEPT !.ffmpeg_valid = (u.ffmpeg_path \in u.working),
                   !.accepted = IF u.ffmpeg_path \in u.working
                                THEN u.ffmpeg_path ELSE @,
                   !.ffmpeg_validated = TRUE]
    ELSE u

\* 381-387, set_ffmpeg_path (98-129): the field's value goes to pydub
PathApplied(u) ==
    IF u.ffmpeg_valid /\ u.ffmpeg_path # ""
    THEN [u EXCEPT !.converter = u.ffmpeg_path]
    ELSE u

\* 449-461: the selection is stored in the session
SelectionStored(u) ==
    [u EXCEPT !.selected_files = IF u.process_all THEN list_audio_files
                                 ELSE u.multiselect]

\* 626-660: Start Processing was pressed: the backend gets the folder
BackendCalled(u, start_processing) ==
    IF start_processing
    THEN [u EXCEPT !.started = TRUE,
                   !.run_selected = u.selected_files,
                   !.processed = BackendFiles]
    ELSE u

\* One run of page_processing.
Rerun(u, validate_ffmpeg, start_processing) ==
    [BackendCalled(SelectionStored(PathApplied(Validated(u, validate_ffmpeg))),
                   start_processing)
        EXCEPT !.pc = "page"]

UiLoad ==
    /\ ui.pc = "load"
    /\ ui' = Rerun(ui, FALSE, FALSE)
    /\ UNCHANGED <<orch_vars, mg, cl, sg>>

UiEditFfmpegPath ==
    /\ ui.pc = "page"
    /\ \E p \in FfmpegPaths \ {ui.ffmpeg_path} :
           ui' = Rerun([ui EXCEPT !.ffmpeg_path = p], FALSE, FALSE)
    /\ UNCHANGED <<orch_vars, mg, cl, sg>>

UiValidate ==
    /\ ui.pc = "page"
    /\ ui' = Rerun(ui, TRUE, FALSE)
    /\ UNCHANGED <<orch_vars, mg, cl, sg>>

\* the multiselect is a new widget whenever it comes back: its default is
\* every listed file
UiToggleProcessAll ==
    /\ ui.pc = "page"
    /\ ui' = Rerun([ui EXCEPT !.process_all = ~@,
                              !.multiselect = list_audio_files],
                   FALSE, FALSE)
    /\ UNCHANGED <<orch_vars, mg, cl, sg>>

UiSelectFiles ==
    /\ ui.pc = "page"
    /\ ~ui.process_all
    /\ \E chosen \in (SUBSET list_audio_files) \ {ui.multiselect} :
           ui' = Rerun([ui EXCEPT !.multiselect = chosen], FALSE, FALSE)
    /\ UNCHANGED <<orch_vars, mg, cl, sg>>

\* 591-623: the button is enabled when can_process held in the last run
UiStartProcessing ==
    /\ ui.pc = "page"
    /\ ui.ffmpeg_valid
    /\ ~ui.started
    /\ ui' = Rerun(ui, FALSE, TRUE)
    /\ UNCHANGED <<orch_vars, mg, cl, sg>>

NextUI ==
    \/ UiLoad
    \/ UiEditFfmpegPath
    \/ UiValidate
    \/ UiToggleProcessAll
    \/ UiSelectFiles
    \/ UiStartProcessing

SpecUI == InitUI /\ [][NextUI]_vars

(***************************************************************************)
(* Claims about the flagging decision (checked under SpecClassify).        *)
(***************************************************************************)

C3_LanguageFirst ==
    cl.pc = "done" =>
        /\ cl.language \notin cl.authorized_languages =>
               /\ cl.verdict.flag_reason.kind = "Language mismatch"
               /\ cl.verdict.flag_reason.language = cl.language
        /\ cl.verdict.flag_reason.kind = "Low confidence" =>
               /\ cl.language \in cl.authorized_languages
               /\ cl.confidence < cl.confidence_threshold
        /\ (cl.language \in cl.authorized_languages
            /\ cl.confidence < cl.confidence_threshold) =>
               cl.verdict.flag_reason.kind = "Low confidence"

C3_Witness ==
    /\ cl.pc = "done"
    /\ cl.language \notin cl.authorized_languages
    /\ cl.confidence < cl.confidence_threshold
    /\ cl.verdict.is_flagged
    /\ cl.verdict.flag_reason.kind = "Language mismatch"

(***************************************************************************)
(* Claims about merge_contiguous_segments (checked under SpecMerge).       *)
(* Positions are counted from 1 here; the indices of a range from 0.       *)
(***************************************************************************)
mgCalled == mg.pc \in {"merged", "remerged"}

mgFlagged == {i \in 1..Len(mg.segments_info) : mg.segments_info[i].is_flagged}

\* i is ordered before j by start_ms, ties by position in the list
mgBefore(i, j) ==
    \/ mg.segments_info[i].start_ms < mg.segments_info[j].start_ms
    \/ /\ mg.segments_info[i].start_ms = mg.segments_info[j].start_ms
       /\ i < j

mgRank(i) == Cardinality({j \in mgFlagged : mgBefore(j, i)})

mgConsecutive(i, j) == mgRank(j) = mgRank(i) + 1

mgSameRange(i, j) ==
    \E r \in 1..Len(mg.merged) :
        /\ (i - 1) \in Range(mg.merged[r].indices)
        /\ (j - 1) \in Range(mg.merged[r].indices)

RangeIntervals(ranges) ==
    [k \in 1..Len(ranges) |-> <<ranges[k].start_ms, ranges[k].end_ms>>]

SpecExample ==
    << [start_ms |-> 0,    end_ms |-> 1000, is_flagged |-> TRUE],
       [start_ms |-> 1200, end_ms |-> 1800, is_flagged |-> TRUE],
       [start_ms |-> 5000, end_ms |-> 5500, is_flagged |-> TRUE] >>

\* C4: two flagged segments that are consecutive in start order are in the
\* same range if and only if the second starts at most max_gap_ms after the
\* first ends; a range is (first start, last end, indices in that order);
\* the example of the spec gives (0,1800) and (5000,5500).
C4_MergeGrouping ==
    mgCalled =>
        /\ \A i, j \in mgFlagged :
               mgConsecutive(i, j) =>
                   (mgSameRange(i, j) <=>
                       mg.segments_info[j].start_ms
                         - mg.segments_info[i].end_ms <= mg.max_gap_ms)
        /\ \A r \in 1..Len(mg.merged) :
               LET idx == mg.merged[r].indices
               IN  /\ Len(idx) >= 1
                   /\ \A k \in 1..Len(idx) : (idx[k] + 1) \in mgFlagged
                   /\ \A k \in 1..(Len(idx) - 1) :
                          mgConsecutive(idx[k] + 1, idx[k + 1] + 1)
                   /\ mg.merged[r].start_ms
                        = mg.segments_info[idx[1] + 1].start_ms
                   /\ mg.merged[r].end_ms
                        = mg.segments_info[idx[Len(idx)] + 1].end_ms
        /\ (mg.segments_info = SpecExample /\ mg.max_gap_ms = 500) =>
               RangeIntervals(mg.merged) = << <<0, 1800>>, <<5000, 5500>> >>

C4_Witness ==
    /\ mg.pc = "merged"
    /\ mg.segments_info = SpecExample
    /\ mg.max_gap_ms = 500
    /\ Len(mg.merged) = 2
    /\ mg.merged[1].indices = <<0, 1>>

\* C5: merging the returned ranges again, each taken as a flagged segment and
\* with the same max_gap_ms, returns the same (start_ms, end_ms) ranges.
C5_MergeIdempotent ==
    mg.pc = "remerged" =>
        RangeIntervals(mg.again) = RangeIntervals(mg.merged)

C5_Witness ==
    /\ mg.pc = "remerged"
    /\ Len(mg.merged) >= 2
    /\ \E r \in 1..Len(mg.merged) : Len(mg.merged[r].indices) >= 2
    /\ Len(mg.again) = Len(mg.merged)

\* how often position i occurs in the index lists of the ranges
mgOccurrences(i) ==
    SumSeq([r \in 1..Len(mg.merged) |->
        Cardinality({k \in 1..Len(mg.merged[r].indices) :
                        mg.merged[r].indices[k] = i - 1})])

\* C6: the index lists of the ranges partition the flagged indices: every
\* flagged index occurs exactly once, no other index occurs, no range is
\* empty; no flagged segment gives no range, one flagged segment gives one
\* range, which is that segment's interval.
C6_MergePartition ==
    mgCalled =>
        /\ \A i \in 1..Len(mg.segments_info) :
               mgOccurrences(i) = (IF i \in mgFlagged THEN 1 ELSE 0)
        /\ \A r \in 1..Len(mg.merged) :
               /\ mg.merged[r].indices # <<>>
               /\ \A k \in 1..Len(mg.merged[r].indices) :
                      (mg.merged[r].indices[k] + 1) \in mgFlagged
        /\ mgFlagged = {} => mg.merged = <<>>
        /\ \A i \in mgFlagged :
               mgFlagged = {i} =>
                   mg.merged = << [start_ms |-> mg.segments_info[i].start_ms,
                                   end_ms   |-> mg.segments_info[i].end_ms,
                                   indices  |-> <<i - 1>>] >>

C6_Witness ==
    /\ mg.pc = "merged"
    /\ Cardinality(mgFlagged) = 3
    /\ Len(mg.merged) = 2
    /\ mg.segments_info[1].start_ms > mg.segments_info[2].start_ms

(***************************************************************************)
(* Claims about the batch (checked under Spec).                            *)
(***************************************************************************)
RowsOf(f) == SelectSeq(all_segments_data, LAMBDA r : r.file = f)

\* The files the loop has left behind.
Finished == 1..(file_idx - 1)

BetweenFiles == pc \in {"file_loop", "returned"} /\ audio_files # <<>>

\* What a file is, read off what it holds: the chunks long enough to be
\* kept, whether it yields any segment, whether an extract cannot be written.
Survivors(content) ==
    SelectSeq(content.nonsilent,
              LAMBDA c : c.end_ms - c.start_ms >= config.min_segment_len)

YieldsNothing(content) == ~content.decodes \/ Survivors(content) = <<>>

Aborts(content) ==
    /\ ~YieldsNothing(content)
    /\ \E k \in 1..Len(Survivors(content)) : ~Survivors(content)[k].temp_ok

\* The segments of a file that are reached: those before the first extract
\* that cannot be written.
Reached(content) ==
    LET sv == Survivors(content)
        stop == IF \E k \in 1..Len(sv) : ~sv[k].temp_ok
                THEN CHOOSE k \in 1..Len(sv) :
                         ~sv[k].temp_ok /\ \A j \in 1..(k - 1) : sv[j].temp_ok
                ELSE Len(sv) + 1
    IN  SubSeq(sv, 1, stop - 1)

RowOfSegment(f, seg) ==
    IF seg.tr.raises \/ seg.tr.late
    THEN TranscriptionErrorRow(f, seg)
    ELSE LET confidence == MeanConfidence(seg.tr.confidences)
         IN  SegmentRow(f, seg, confidence,
                        Classify(seg.tr.language, confidence,
                                 config.authorized_languages,
                                 config.confidence_threshold))

\* The rows of a file processed on its own.
RowsAlone(f, content) ==
    IF YieldsNothing(content) THEN <<NoSpeechRow(f)>>
    ELSE [k \in 1..Len(Reached(content)) |->
              RowOfSegment(f, Reached(content)[k])]
         \o (IF Aborts(content) THEN <<ProcessingErrorRow(f)>> ELSE <<>>)

RECURSIVE RowsOfFirst(_)
RowsOfFirst(n) ==
    IF n = 0 THEN <<>>
    ELSE RowsOfFirst(n - 1) \o RowsAlone(audio_files[n], contents[n])

DecodeFailures == {k \in Finished : ~contents[k].decodes}

OtherFailures ==
    {k \in Finished : /\ contents[k].decodes
                      /\ \/ YieldsNothing(contents[k])
                         \/ Aborts(contents[k])}

\* C1 as first stated: with k files failing to decode (k >= 1), at the end
\* failed_files = k and successful_files = n - k.
C1_FailedIsDecodeFailures ==
    (pc = "returned" /\ result.success /\ DecodeFailures # {}) =>
        /\ processing_stats.failed_files = Cardinality(DecodeFailures)
        /\ processing_stats.successful_files =
               Len(audio_files) - Cardinality(DecodeFailures)

\* C1 (amended): between files, every file that failed to decode has exactly
\* one row, its placeholder; the report is the rows each file gives on its
\* own, in file order; failed_files counts the decode failures and the other
\* failed files (no speech kept, or aborted), successful_files the rest.
C1_FaultIsolation ==
    BetweenFiles =>
        /\ Len(contents) = file_idx - 1
        /\ \A k \in DecodeFailures :
               /\ Len(RowsOf(audio_files[k])) = 1
               /\ RowsOf(audio_files[k])[1].is_flagged
        /\ all_segments_data = RowsOfFirst(file_idx - 1)
        /\ processing_stats.failed_files =
               Cardinality(DecodeFailures) + Cardinality(OtherFailures)
        /\ processing_stats.successful_files =
               Cardinality(Finished) - Cardinality(DecodeFailures)
                 - Cardinality(OtherFailures)

\* three files, the second fails to decode, the others are fine
C1_Witness ==
    /\ pc = "returned"
    /\ result.success
    /\ Len(audio_files) = 3
    /\ DecodeFailures = {2}
    /\ OtherFailures = {}
    /\ processing_stats.failed_files = 1
    /\ processing_stats.successful_files = 2
    /\ Len(all_segments_data) = 3

\* The step that visits a file.
VisitsFile == Len(contents') = Len(contents) + 1

Visited == contents'[Len(contents')]

\* C7: a file for which detect_speech_segments returns no interval gets one
\* flagged row with the no-speech reason, failed_files grows by one and no
\* other counter changes, nothing is transcribed or exported, and the loop
\* goes on with the next file.
C7_NoSpeechStep ==
    (VisitsFile /\ YieldsNothing(Visited)) =>
        /\ Len(all_segments_data') = Len(all_segments_data) + 1
        /\ SubSeq(all_segments_data', 1, Len(all_segments_data))
               = all_segments_data
        /\ LET row == all_segments_data'[Len(all_segments_data')]
           IN  /\ row.file = filename
               /\ row.is_flagged
               /\ row.reason.kind = "No speech segments detected"
        /\ processing_stats' =
               [processing_stats EXCEPT !.failed_files = @ + 1]
        /\ transcribed' = transcribed
        /\ clips' = clips
        /\ file_idx' = file_idx + 1
        /\ pc' = "file_loop"

C7_NoSpeech ==
    /\ [][C7_NoSpeechStep]_vars
    /\ [](\A k \in 1..Len(contents) :
             YieldsNothing(contents[k]) =>
                 /\ k \in Finished
                 /\ Len(RowsOf(audio_files[k])) = 1
                 /\ \A t \in 1..Len(transcribed) :
                        transcribed[t][1] # audio_files[k]
                 /\ \A c \in 1..Len(clips) : clips[c].file # audio_files[k])

\* a decodable file whose only chunk is too short, then another file
C7_Witness ==
    /\ Len(contents) = 2
    /\ contents[1].decodes
    /\ contents[1].nonsilent # <<>>
    /\ YieldsNothing(contents[1])
    /\ config.output_cropped_folder
    /\ all_segments_data[1].reason.kind = "No speech segments detected"
    /\ processing_stats.failed_files = 1
    /\ pc = "transcribe"

\* C8 as first stated: a file that fails to decode gets one row whose reason
\* is the processing error.
C8_DecodeFailureIsProcessingError ==
    \A k \in DecodeFailures :
        /\ Len(RowsOf(audio_files[k])) = 1
        /\ RowsOf(audio_files[k])[1].reason.kind = "Processing Error"

\* C8 (amended): a file that fails to decode gets exactly one row, whose
\* reason is the no-speech reason; it is counted failed; no chunk of it is
\* looked for, written or transcribed.
C8_DecodeFailureStep ==
    (VisitsFile /\ ~Visited.decodes) =>
        /\ all_segments_data' = Append(all_segments_data, NoSpeechRow(filename))
        /\ processing_stats' =
               [processing_stats EXCEPT !.failed_files = @ + 1]
        /\ speech_segments' = <<>>
        /\ full_audio' = FALSE
        /\ transcribed' = transcribed
        /\ temp_files' = temp_files
        /\ file_idx' = file_idx + 1
        /\ pc' = "file_loop"

C8_DecodeFailure ==
    /\ [][C8_DecodeFailureStep]_vars
    /\ [](\A k \in DecodeFailures :
             /\ Len(RowsOf(audio_files[k])) = 1
             /\ RowsOf(audio_files[k])[1].reason.kind
                    = "No speech segments detected"
             /\ RowsOf(audio_files[k])[1].is_flagged)

\* an undecodable file whose audio would have held speech, then the end
C8_Witness ==
    /\ pc = "returned"
    /\ result.success
    /\ \E k \in DecodeFailures :
           /\ Survivors(contents[k]) # <<>>
           /\ RowsOf(audio_files[k]) = <<NoSpeechRow(audio_files[k])>>
    /\ processing_stats.failed_files = 1

\* The step that ends a transcription which raised.
TranscriptionRaised ==
    /\ Len(transcribed') = Len(transcribed) + 1
    /\ segment.tr.raises \/ segment.tr.late

\* C9: a transcription that raises gives exactly one row for its segment
\* (transcription-error reason, flagged, confidence 0), the loop goes on with
\* the next segment of the same file, and a file none of whose extracts fails
\* to be written is counted successful with one row per segment, however many
\* of its transcriptions raised.
C9_TranscriptionErrorStep ==
    TranscriptionRaised =>
        /\ Len(all_segments_data') = Len(all_segments_data) + 1
        /\ SubSeq(all_segments_data', 1, Len(all_segments_data))
               = all_segments_data
        /\ LET row == all_segments_data'[Len(all_segments_data')]
           IN  /\ row.file = filename
               /\ row.start = Seconds(segment.start_ms)
               /\ row.end = Seconds(segment.end_ms)
               /\ row.reason.kind = "Transcription Error"
               /\ row.is_flagged
               /\ row.confidence = 0
        /\ processing_stats'.failed_files = processing_stats.failed_files
        /\ file_idx' = file_idx
        /\ seg_i' = seg_i + 1
        /\ pc' = "segment_loop"

Completes(content) == ~YieldsNothing(content) /\ ~Aborts(content)

C9_SegmentRecovery ==
    /\ [][C9_TranscriptionErrorStep]_vars
    /\ [](BetweenFiles =>
             /\ processing_stats.successful_files =
                    Cardinality({k \in Finished : Completes(contents[k])})
             /\ \A k \in Finished :
                    Completes(contents[k]) =>
                        /\ Len(RowsOf(audio_files[k]))
                               = Len(Survivors(contents[k]))
                        /\ \A j \in 1..Len(Survivors(contents[k])) :
                               RowsOf(audio_files[k])[j].start
                                   = Seconds(Survivors(contents[k])[j].start_ms))

\* a file whose first transcription raised and whose second did not, done
C9_Witness ==
    /\ pc = "returned"
    /\ Len(audio_files) = 1
    /\ Len(Survivors(contents[1])) = 2
    /\ Survivors(contents[1])[1].tr.raises
    /\ ~Survivors(contents[1])[2].tr.raises
    /\ Len(all_segments_data) = 2
    /\ all_segments_data[1].reason.kind = "Transcription Error"
    /\ all_segments_data[2].reason.kind = "N/A"
    /\ processing_stats.successful_files = 1
    /\ processing_stats.failed_files = 0

\* C10: every file counted as failed has exactly one row in all, its
\* failure row.
C10_FailedFileHasOneRow ==
    BetweenFiles =>
        \A k \in Finished :
            (YieldsNothing(contents[k]) \/ Aborts(contents[k])) =>
                /\ Len(RowsOf(audio_files[k])) = 1
                /\ RowsOf(audio_files[k])[1].text
                       \in {"NO SPEECH DETECTED", "ERROR DURING PROCESSING"}

(***************************************************************************)
(* Claims about the end of the batch and its setup (checked under Spec).   *)
(***************************************************************************)

\* C11: a batch none of whose files yields a speech segment returns a failure
\* (success false) and writes no report.
C11_ZeroSegmentsFatal ==
    (/\ pc = "returned"
     /\ audio_files # <<>>
     /\ \A k \in 1..Len(contents) : YieldsNothing(contents[k]))
    => (~result.success /\ ~report.written)

\* The setup cannot succeed: the input folder is missing, the model does not
\* load, or no name in the folder has an audio extension.
SetupBlocked == ~env.folder_exists \/ ~env.model_loads \/ env.audio = 0

\* C12: when the input folder does not exist, the model fails to load or the
\* folder holds no audio file, the call returns success false with an error
\* description, and it visits no file, appends no row, exports no clip and
\* writes no report.
C12_SetupFailureFatal ==
    SetupBlocked =>
        /\ pc \in {"setup", "returned"}
        /\ contents = <<>>
        /\ transcribed = <<>>
        /\ all_segments_data = <<>>
        /\ clips = <<>>
        /\ ~report.written
        /\ pc = "returned" =>
               /\ result.returned
               /\ ~result.success
               /\ result.error # ""
               /\ ~result.output_excel_path

C12_Witness ==
    /\ pc = "returned"
    /\ env.folder_exists /\ ~env.model_loads /\ env.audio > 0
    /\ ~result.success
    /\ result.error = "Error loading model"

(***************************************************************************)
(* Claims about the rows of the report (checked under Spec).               *)
(***************************************************************************)

\* What detect_speech_segments returned for a file that has been visited.
Returned(content) == IF content.decodes THEN Survivors(content) ELSE <<>>

\* The rows of file f that carry the bounds of the interval seg.
RowsFor(f, seg) ==
    SelectSeq(all_segments_data,
              LAMBDA r : /\ r.file = f
                         /\ r.start = Seconds(seg.start_ms)
                         /\ r.end = Seconds(seg.end_ms))

Attempted(f, i) == \E n \in 1..Len(transcribed) : transcribed[n] = <<f, i>>

Millis(t) == t.s * 1000 + t.frac

\* C14: the rows of the final report are in file input order and, within one
\* file, in ascending start time; rows of different files are not interleaved,
\* whatever segments or files failed.
C14_ReportOrdered ==
    (pc = "returned" /\ report.written) =>
        \A n \in 1..(Len(report.rows) - 1) :
            LET a == report.rows[n]
                b == report.rows[n + 1]
            IN  \/ a.file < b.file
                \/ a.file = b.file /\ Millis(a.start) <= Millis(b.start)

(***************************************************************************)
(* Claims about the exported clips (checked under Spec).                   *)
(***************************************************************************)

\* The export attempts made for file f.
ClipsOf(f) == SelectSeq(clips, LAMBDA c : c.file = f)

\* C15: for a file that is processed to its end with a clip folder
\* configured, every segment whose row is flagged (transcription errors
\* included) lies inside a clip whose export was attempted: a merged range
\* when merging is enabled, its own clip when it is not.
C15_FlaggedRowsCovered ==
    (BetweenFiles /\ config.output_cropped_folder) =>
        \A k \in Finished :
            Completes(contents[k]) =>
                \A n \in 1..Len(RowsOf(audio_files[k])) :
                    LET r == RowsOf(audio_files[k])[n]
                    IN  r.is_flagged =>
                            \E c \in 1..Len(ClipsOf(audio_files[k])) :
                                LET clip == ClipsOf(audio_files[k])[c]
                                IN  /\ clip.start_ms <= Millis(r.start)
                                    /\ Millis(r.end) <= clip.end_ms

\* The entries of file_segments_info a file ends with, read off what the file
\* holds: one for each interval whose transcription raised nothing.
InfoOf(seg) ==
    LET confidence == MeanConfidence(seg.tr.confidences)
    IN  SegmentInfo(seg, confidence,
                    Classify(seg.tr.language, confidence,
                             config.authorized_languages,
                             config.confidence_threshold))

InfosOf(content) ==
    LET kept == SelectSeq(Returned(content),
                          LAMBDA c : ~c.tr.raises /\ ~c.tr.late)
    IN  [j \in 1..Len(kept) |-> InfoOf(kept[j])]

\* The number of export attempts the file calls for.
ClipsDue(content) ==
    IF ~config.output_cropped_folder THEN 0
    ELSE IF config.merge_flagged_segments
    THEN Len(merge_contiguous_segments(InfosOf(content),
                                       config.max_merge_gap_ms))
    ELSE Len(SelectSeq(InfosOf(content), LAMBDA s : s.is_flagged))

\* The step in which an export fails.
ExportFailed ==
    /\ Len(clips') = Len(clips) + 1
    /\ ~clips'[Len(clips')].ok

MergedSaved == {n \in 1..Len(clips) : clips[n].kind = "merged" /\ clips[n].ok}

\* C16: a failed clip export changes nothing but the log of attempts: no
\* counter (merged_clips included), no row and no flag changes, the export
\* loop goes on with the next clip, and the file is still counted successful
\* with every clip it calls for attempted; merged_clips is the number of
\* merged ranges whose export succeeded.
C16_ExportFailedStep ==
    ExportFailed =>
        /\ processing_stats' = processing_stats
        /\ all_segments_data' = all_segments_data
        /\ file_segments_info' = file_segments_info
        /\ merge_idx' = merge_idx + 1
        /\ pc' = pc /\ file_idx' = file_idx
        /\ report' = report /\ result' = result

C16_ExportRecoverable ==
    /\ [][C16_ExportFailedStep]_vars
    /\ [](processing_stats.merged_clips = Cardinality(MergedSaved))
    /\ [](BetweenFiles =>
             /\ processing_stats.successful_files
                    = Cardinality({k \in Finished : Completes(contents[k])})
             /\ \A k \in Finished :
                    Completes(contents[k]) =>
                        Len(ClipsOf(audio_files[k])) = ClipsDue(contents[k]))

\* two merged ranges of one file: the first export failed, the second did not
C16_Witness ==
    /\ pc = "returned"
    /\ result.success
    /\ Len(clips) = 2
    /\ clips[1].kind = "merged" /\ ~clips[1].ok
    /\ clips[2].kind = "merged" /\ clips[2].ok /\ clips[2].file = clips[1].file
    /\ processing_stats.merged_clips = 1
    /\ processing_stats.successful_files = 1

(***************************************************************************)
(* Claims about the statistics (checked under Spec).                       *)
(***************************************************************************)

FilesCounted(stats) == stats.successful_files + stats.failed_files

\* C17: every file ends in exactly one outcome: the step that leaves a file
\* adds one to exactly one of successful_files and failed_files, and no other
\* step changes either; so the two always sum to the number of files finished
\* so far, and to total_files, fixed when the loop starts, once the batch has
\* returned.
C17_FileCountersStep ==
    pc \notin {"setup", "off"} =>
        /\ processing_stats'.total_files = processing_stats.total_files
        /\ IF file_idx' = file_idx + 1
           THEN \/ /\ processing_stats'.successful_files
                          = processing_stats.successful_files + 1
                   /\ processing_stats'.failed_files
                          = processing_stats.failed_files
                \/ /\ processing_stats'.failed_files
                          = processing_stats.failed_files + 1
                   /\ processing_stats'.successful_files
                          = processing_stats.successful_files
           ELSE /\ processing_stats'.successful_files
                       = processing_stats.successful_files
                /\ processing_stats'.failed_files
                       = processing_stats.failed_files
                /\ file_idx' = file_idx

C17_FileCounters ==
    /\ [][C17_FileCountersStep]_vars
    /\ [](audio_files # <<>> =>
             /\ processing_stats.total_files = Len(audio_files)
             /\ FilesCounted(processing_stats) = file_idx - 1
             /\ pc = "returned" =>
                    FilesCounted(processing_stats)
                        = processing_stats.total_files)

\* three files: one processed to its end, one aborted, one silent
C17_Witness ==
    /\ pc = "returned"
    /\ processing_stats.total_files = 3
    /\ processing_stats.successful_files = 1
    /\ processing_stats.failed_files = 2
    /\ \E k \in 1..3 : Aborts(contents[k])
    /\ \E k \in 1..3 : YieldsNothing(contents[k])

\* The rows that stand for a segment: every row but the placeholders of a
\* silent file and of an aborted one.
SegmentRows ==
    SelectSeq(all_segments_data,
              LAMBDA r : r.reason.kind \notin {"No speech segments detected",
                                               "Processing Error"})

\* C18: every processed segment is counted once in total_segments and once in
\* flagged_segments exactly when its row is flagged, whatever raised inside
\* the try block of the segment: total_segments is the number of segment
\* rows, flagged_segments the number of flagged segment rows, and
\* flagged_segments <= total_segments.
C18_SegmentCounters ==
    /\ processing_stats.total_segments = Len(SegmentRows)
    /\ processing_stats.flagged_segments
           = Len(SelectSeq(SegmentRows, LAMBDA r : r.is_flagged))
    /\ processing_stats.flagged_segments <= processing_stats.total_segments

(***************************************************************************)
(* Claims about the temporary extract (checked under Spec).                *)
(***************************************************************************)

\* C19: the extract written for a segment is gone before the next segment
\* begins and before the file is left, on every path; there is never more
\* than one extract, and none is left once the batch has returned.
C19_ExtractScoped ==
    /\ Cardinality(temp_files) <= 1
    /\ pc \in {"segment_loop", "file_loop", "export_merged",
               "export_individual", "returned"} => temp_files = {}

(***************************************************************************)
(* Claims about detect_speech_segments (checked under SpecSegmenter).      *)
(***************************************************************************)

ChunkLength(c) == c.end_ms - c.start_ms

\* C20: detect_speech_segments returns, in order, exactly the non-silent
\* intervals whose length is at least min_segment_len, so an interval of
\* exactly that length is kept; it returns the empty list, raising nothing,
\* when the file cannot be decoded or no interval is long enough.
C20_SegmenterFilter ==
    sg.pc = "done" =>
        /\ sg.returned.segments =
               IF sg.content.decodes
               THEN SelectSeq(sg.content.nonsilent,
                              LAMBDA c : ChunkLength(c) >= sg.min_segment_len)
               ELSE <<>>
        /\ sg.returned.audio = sg.content.decodes
        /\ sg.content.decodes =>
               \A k \in 1..Len(sg.content.nonsilent) :
                   ChunkLength(sg.content.nonsilent[k]) = sg.min_segment_len
                       => \E j \in 1..Len(sg.returned.segments) :
                              sg.returned.segments[j] = sg.content.nonsilent[k]

\* chunks just below, exactly at and just above min_segment_len
C20_Witness ==
    /\ sg.pc = "done"
    /\ sg.content.decodes
    /\ Len(sg.content.nonsilent) = 3
    /\ ChunkLength(sg.content.nonsilent[1]) = sg.min_segment_len - 1
    /\ ChunkLength(sg.content.nonsilent[2]) = sg.min_segment_len
    /\ ChunkLength(sg.content.nonsilent[3]) = sg.min_segment_len + 1
    /\ sg.returned.segments
           = <<sg.content.nonsilent[2], sg.content.nonsilent[3]>>

(***************************************************************************)
(* Claims about the order of the work (checked under SpecFair).            *)
(***************************************************************************)

Exporting == pc \in {"export_merged", "export_individual"}

\* C21: the batch always returns, and when it has, every file has been left
\* behind (counted successful or failed), so every file reaches its terminal
\* state; files are taken one at a time in input order, the
\* next one only once the one before is counted; merging and exporting for a
\* file start only when every segment of the file has been through
\* transcription and classification.
C21_OneFileAtATime ==
    file_idx' \in {file_idx, file_idx + 1}

C21_FileSequencing ==
    /\ <>(pc = "returned")
    /\ [](pc = "returned" /\ audio_files # <<>> =>
             /\ file_idx = Len(audio_files) + 1
             /\ FilesCounted(processing_stats) = Len(audio_files))
    /\ [][C21_OneFileAtATime]_vars
    /\ [](audio_files # <<>> =>
             /\ Len(contents) \in {file_idx - 1, file_idx}
             /\ FilesCounted(processing_stats) = file_idx - 1
             /\ \A k \in 1..Len(all_segments_data) : 
                    all_segments_data[k].file <= file_idx)
    /\ [](Exporting =>
             /\ seg_i = Len(speech_segments)
             /\ \A j \in 0..(Len(speech_segments) - 1) :
                    Attempted(filename, j))

\* three files done, the second of which had its clips exported
C21_Witness ==
    /\ pc = "returned"
    /\ Len(audio_files) = 3
    /\ file_idx = 4
    /\ \E n \in 1..Len(clips) : clips[n].file = audio_files[2]

\* The Flag Reason of a row goes with its Is Flagged.
ReasonFits(r) ==
    /\ (r.reason = NotApplicable) <=> ~r.is_flagged
    /\ r.is_flagged => r.reason.kind \notin {"", "N/A"}

\* C22: in every row, written or about to be, the Flag Reason is "N/A"
\* exactly when the row is not flagged; a flagged row (policy flag,
\* transcription error, no-speech or processing-error placeholder) carries a
\* reason that is neither empty nor "N/A".
C22_FlagReason ==
    /\ \A n \in 1..Len(all_segments_data) : ReasonFits(all_segments_data[n])
    /\ \A n \in 1..Len(report.rows) : ReasonFits(report.rows[n])

\* a written report with an unflagged row, a policy flag and a placeholder
C22_Witness ==
    /\ report.written
    /\ \E n \in 1..Len(report.rows) : ~report.rows[n].is_flagged
    /\ \E n \in 1..Len(report.rows) :
           report.rows[n].reason.kind = "Language mismatch"
    /\ \E n \in 1..Len(report.rows) :
           report.rows[n].reason.kind = "No speech segments detected"

\* C23: when the call returns success, the rows are as many as
\* total_segments + failed_files: every row is a counted segment row or the
\* one placeholder row of a failed file.
C23_RowsReconcile ==
    (pc = "returned" /\ result.success) =>
        /\ Len(all_segments_data)
               = processing_stats.total_segments
                     + processing_stats.failed_files
        /\ Len(SegmentRows) = processing_stats.total_segments
        /\ Len(all_segments_data) - Len(SegmentRows)
               = processing_stats.failed_files
        /\ report.written => report.rows = all_segments_data

\* a batch with a silent file, an aborted file and segment rows
C23_Witness ==
    /\ pc = "returned"
    /\ result.success
    /\ processing_stats.failed_files = 2
    /\ processing_stats.total_segments >= 1
    /\ \E k \in 1..Len(contents) : Aborts(contents[k])
    /\ Len(all_segments_data) = processing_stats.total_segments + 2

(***************************************************************************)
(* Further claims about merge_contiguous_segments (checked under           *)
(* SpecMerge).                                                             *)
(***************************************************************************)

\* The segments a returned range was made of (its indices count from 0).
Constituents(range) ==
    { mg.segments_info[range.indices[n] + 1] : n \in 1..Len(range.indices) }

\* C24: each returned range starts at the least start_ms and ends at the
\* greatest end_ms of the segments it was made of, so each of them lies
\* inside the range, overlapping and nested segments included.
C24_RangeCovers ==
    mg.pc \in {"merged", "remerged"} =>
        \A n \in 1..Len(mg.merged) :
            \A seg \in Constituents(mg.merged[n]) :
                /\ mg.merged[n].start_ms <= seg.start_ms
                /\ seg.end_ms <= mg.merged[n].end_ms

\* C25: for gaps g1 <= g2 the grouping with g2 is coarser than the one with
\* g1: the indices of every g1-range lie in one g2-range, so there are no
\* more ranges with g2 than with g1, and never more than flagged segments.
C25_MergeMonotone ==
    mg.pc = "widened" =>
        /\ \A r \in 1..Len(mg.merged) :
               \E w \in 1..Len(mg.wider) :
                   Range(mg.merged[r].indices) \subseteq Range(mg.wider[w].indices)
        /\ Len(mg.wider) <= Len(mg.merged)
        /\ Len(mg.merged) <= Cardinality(mgFlagged)

\* three flagged segments: three ranges with gap 0, fewer with a larger gap
C25_Witness ==
    /\ mg.pc = "widened"
    /\ mg.max_gap_ms < mg.wider_gap
    /\ Len(mg.merged) = 3
    /\ Len(mg.wider) \in {1, 2}

(***************************************************************************)
(* Claims about what the call leaves behind (checked under Spec).          *)
(***************************************************************************)

\* C26: when the call returns success with an output_excel_path, the report
\* has been written and holds every accumulated row; a report that could not
\* be written is never returned as a success.
C26_SuccessHasReport ==
    (pc = "returned" /\ result.success /\ result.output_excel_path) =>
        /\ report.written
        /\ report.rows = all_segments_data

\* C27: the call never writes over or removes a file of its input list: the
\* only files it creates or removes in the input folder are its own extracts,
\* whose names are not names of input files.
C27_InputsUntouched ==
    /\ \A k \in DOMAIN folder : folder[k] = "intact"
    /\ \A i \in temp_files : ~Clashes(i)

(***************************************************************************)
(* Claims about the processing page (checked under SpecUI).                *)
(***************************************************************************)

\* C28: when a run is started from the page, the files the backend works on
\* are the files stored as selected_files: a deselected file is not
\* processed, and every file the page lists can be.
C28_SelectionHonoured ==
    ui.started => ui.processed = ui.run_selected

\* C29: whenever the session says ffmpeg_valid (so the path is handed to
\* pydub and Start Processing is enabled), the path in the FFmpeg field is the
\* path validate_ffmpeg_path last accepted.
C29_ValidationFresh ==
    (ui.pc = "page" /\ ui.ffmpeg_valid) =>
        /\ ui.ffmpeg_path = ui.accepted
        /\ ui.converter \in {Unset, ui.accepted}

====
